---- MODULE Spec2Model ----
(***************************************************************************)
(* SQLite dialect data types of sequelize (lib/dialects/sqlite/data-types.js) *)
(*                                                                         *)
(* The module is a function of BaseTypes.  Loading it assigns the sqlite   *)
(* alias list of every base type, defines the dialect constructors and     *)
(* their toSql / parse operations, and gives every exported constructor a  *)
(* key and an extend operation.  The state below is the state after the    *)
(* module has been loaded, together with the instances a client holds: the *)
(* instance it constructed last and the instances extended from it.        *)
(*                                                                         *)
(* JavaScript values are pairs <<typeof, text>>, text being the value the  *)
(* way a template literal prints it, so that every value is comparable.    *)
(***************************************************************************)
EXTENDS Integers, Sequences, FiniteSets, TLC

VARIABLES types, keys, insts, rendered, last

vars == <<types, keys, insts, rendered, last>>

-----------------------------------------------------------------------------
(* Bounds of the model *)

MaxLength == 2

MaxDecimals == 1

MaxInstances == 2

-----------------------------------------------------------------------------
(* JavaScript values *)

Undef == <<"undefined", "undefined">>

Null == <<"object", "null">>

True == <<"boolean", "true">>

False == <<"boolean", "false">>

Num(n) == <<"number", ToString(n)>>

NumV(s) == <<"number", s>>

StrV(s) == <<"string", s>>

ArrV(s) == <<"array", s>>

TypeOf(v) == IF v[1] = "array" THEN "object" ELSE v[1]

(* `${v}` *)
Str(v) == v[2]

(* the truthiness an if (...) tests *)
Truthy(v) ==
    /\ v # Undef
    /\ v # Null
    /\ v # False
    /\ v # StrV("")
    /\ v # NumV("0")
    /\ v # NumV("NaN")

(* String.prototype.includes *)
Includes(s, sub) ==
    \E i \in 1..(Len(s) - Len(sub) + 1) : SubSeq(s, i, i + Len(sub) - 1) = sub

-----------------------------------------------------------------------------
(* The exported table and the alias lists *)

IntegerTypes == {"TINYINT", "SMALLINT", "MEDIUMINT", "INTEGER", "BIGINT"}

FloatingTypes == {"FLOAT", "DOUBLE PRECISION", "REAL"}

NumericTypes == IntegerTypes \cup FloatingTypes \cup {"NUMBER"}

StringTypes == {"STRING", "CHAR"}

ExportKeys ==
    {"DATE", "DATEONLY", "STRING", "CHAR", "NUMBER", "FLOAT", "REAL",
     "DOUBLE PRECISION", "TINYINT", "SMALLINT", "MEDIUMINT", "INTEGER",
     "BIGINT", "TEXT", "ENUM", "JSON", "CITEXT"}

(* the property of BaseTypes an exported constructor inherits from *)
BaseOf(k) == IF k = "DOUBLE PRECISION" THEN "DOUBLE" ELSE k

(* the properties of BaseTypes the module touches *)
BaseNames ==
    {"DATE", "STRING", "CHAR", "TEXT", "TINYINT", "SMALLINT", "MEDIUMINT",
     "INTEGER", "BIGINT", "FLOAT", "TIME", "DATEONLY", "BOOLEAN", "BLOB",
     "DECIMAL", "UUID", "ENUM", "REAL", "DOUBLE", "GEOMETRY", "JSON",
     "NUMBER", "CITEXT"}

List(names) == [kind |-> "list", names |-> names]

Unsupported == [kind |-> "false", names |-> <<>>]

Unassigned == [kind |-> "undefined", names |-> <<>>]

(* BaseTypes.<T>.types.sqlite = ... ; a property never assigned is undefined *)
AliasesOf(b) ==
       (CASE b = "DATE"      -> List(<<"DATETIME">>)
          [] b = "STRING"    -> List(<<"VARCHAR", "VARCHAR BINARY">>)
          [] b = "CHAR"      -> List(<<"CHAR", "CHAR BINARY">>)
          [] b = "TEXT"      -> List(<<"TEXT">>)
          [] b = "TINYINT"   -> List(<<"TINYINT">>)
          [] b = "SMALLINT"  -> List(<<"SMALLINT">>)
          [] b = "MEDIUMINT" -> List(<<"MEDIUMINT">>)
          [] b = "INTEGER"   -> List(<<"INTEGER">>)
          [] b = "BIGINT"    -> List(<<"BIGINT">>)
          [] b = "FLOAT"     -> List(<<"FLOAT">>)
          [] b = "TIME"      -> List(<<"TIME">>)
          [] b = "DATEONLY"  -> List(<<"DATE">>)
          [] b = "BOOLEAN"   -> List(<<"TINYINT">>)
          [] b = "BLOB"      -> List(<<"TINYBLOB", "BLOB", "LONGBLOB">>)
          [] b = "DECIMAL"   -> List(<<"DECIMAL">>)
          [] b = "UUID"      -> List(<<"UUID">>)
          [] b = "ENUM"      -> Unsupported
          [] b = "REAL"      -> List(<<"REAL">>)
          [] b = "DOUBLE"    -> List(<<"DOUBLE PRECISION">>)
          [] b = "GEOMETRY"  -> Unsupported
          [] b = "JSON"      -> List(<<"JSON", "JSONB">>)
          [] OTHER           -> Unassigned)

SqliteTypes_doubleAlias ==
    [b \in BaseNames |-> IF b = "DOUBLE" THEN List(<<"DOUBLE">>) ELSE AliasesOf(b)]

SqliteTypes_enumAlias ==
    [b \in BaseNames |-> IF b = "ENUM" THEN List(<<"TEXT">>) ELSE AliasesOf(b)]

(* the sqlite alias entries once the module is loaded *)
SqliteTypes == [b \in BaseNames |-> AliasesOf(b)]

(* _.forIn(exports, ...): if (!DataType.key) DataType.key = key *)
ExportedKeys == [k \in ExportKeys |-> k]

-----------------------------------------------------------------------------
(* Instances *)

NoOptions ==
    [length |-> Undef, decimals |-> Undef, binary |-> Undef,
     unsigned |-> Undef, zerofill |-> Undef, values |-> Undef]

NoInst ==
    [type |-> "", options |-> NoOptions, _length |-> Undef, _decimals |-> Undef,
     _binary |-> Undef, _unsigned |-> Undef, _zerofill |-> Undef, values |-> Undef]

(* BaseTypes.<T>.apply(this, arguments): the base constructor keeps the     *)
(* options object and exposes the options of its family as fields           *)
BaseConstruct(type, o) ==
    [type      |-> type,
     options   |-> o,
     _length   |-> IF type \in NumericTypes \cup StringTypes \cup {"TEXT", "DATE"}
                   THEN o.length ELSE Undef,
     _decimals |-> IF type \in NumericTypes THEN o.decimals ELSE Undef,
     _binary   |-> IF type \in StringTypes THEN o.binary ELSE Undef,
     _unsigned |-> IF type \in NumericTypes THEN o.unsigned ELSE Undef,
     _zerofill |-> IF type \in NumericTypes THEN o.zerofill ELSE Undef,
     values    |-> IF type = "ENUM" THEN o.values ELSE Undef]

(* this.key *)
KeyOf(inst) == keys[inst.type]

removeUnsupportedIntegerOptions_onlyUnsigned(dataType) ==
    IF Truthy(dataType._unsigned)
    THEN [self   |-> [dataType EXCEPT !._unsigned = Undef, !._zerofill = Undef],
          warned |-> 1]
    ELSE [self |-> dataType, warned |-> 0]

(* function removeUnsupportedIntegerOptions(dataType) *)
removeUnsupportedIntegerOptions(dataType) ==
    IF Truthy(dataType._zerofill) \/ Truthy(dataType._unsigned)
    THEN [self   |-> [dataType EXCEPT !._unsigned = Undef, !._zerofill = Undef],
          warned |-> 1]
    ELSE [self |-> dataType, warned |-> 0]

(* new DataType(options), for every exported DataType *)
Construct(type, o) ==
    IF type \in IntegerTypes
    THEN removeUnsupportedIntegerOptions(BaseConstruct(type, o))
    ELSE [self |-> BaseConstruct(type, o), warned |-> 0]

-----------------------------------------------------------------------------
(* Rendering.  Every toSql gives the rendered string, the instance as the   *)
(* call leaves it, and the number of calls of warn it made.                 *)

Rendered(sql, self, warned) == [sql |-> sql, self |-> self, warned |-> warned]

(* BaseTypes.<T>.prototype.toSql, for the constructors that do not override *)
(* it or that call it                                                       *)
BaseToSql(inst) ==
    CASE inst.type = "STRING"   -> "VARCHAR(" \o Str(inst._length) \o ")"
      [] inst.type = "CHAR"     -> "CHAR(" \o Str(inst._length) \o ")"
      [] inst.type = "DATE"     -> "DATETIME"
      [] inst.type = "DATEONLY" -> "DATE"
      [] OTHER                  -> KeyOf(inst)

STRING_toSql_binaryLast(inst) ==
    IF Truthy(inst._binary)
    THEN Rendered("VARCHAR(" \o Str(inst._length) \o ") BINARY", inst, 0)
    ELSE Rendered(BaseToSql(inst), inst, 0)

(* STRING.prototype.toSql *)
STRING_toSql(inst) ==
    IF Truthy(inst._binary)
    THEN Rendered("VARCHAR BINARY(" \o Str(inst._length) \o ")", inst, 0)
    ELSE Rendered(BaseToSql(inst), inst, 0)

TEXT_toSql_keepsLength(inst) ==
    IF Truthy(inst._length)
    THEN Rendered("TEXT", inst, 1)
    ELSE Rendered("TEXT", inst, 0)

(* TEXT.prototype.toSql *)
TEXT_toSql(inst) ==
    IF Truthy(inst._length)
    THEN Rendered("TEXT", [inst EXCEPT !._length = Undef], 1)
    ELSE Rendered("TEXT", inst, 0)

(* CITEXT.prototype.toSql *)
CITEXT_toSql(inst) == Rendered("TEXT COLLATE NOCASE", inst, 0)

(* CHAR.prototype.toSql *)
CHAR_toSql(inst) ==
    IF Truthy(inst._binary)
    THEN Rendered("CHAR BINARY(" \o Str(inst._length) \o ")", inst, 0)
    ELSE Rendered(BaseToSql(inst), inst, 0)

NUMBER_toSql_truthyDecimals(inst) ==
    LET r0 == KeyOf(inst)
        r1 == IF Truthy(inst._unsigned) THEN r0 \o " UNSIGNED" ELSE r0
        r2 == IF Truthy(inst._zerofill) THEN r1 \o " ZEROFILL" ELSE r1
        r3 == IF Truthy(inst._length)
              THEN LET a == r2 \o "(" \o Str(inst._length)
                       b == IF Truthy(inst._decimals)
                            THEN a \o "," \o Str(inst._decimals)
                            ELSE a
                   IN b \o ")"
              ELSE r2
    IN Rendered(r3, inst, 0)

(* NUMBER.prototype.toSql *)
NUMBER_toSql(inst) ==
    LET r0 == KeyOf(inst)
        r1 == IF Truthy(inst._unsigned) THEN r0 \o " UNSIGNED" ELSE r0
        r2 == IF Truthy(inst._zerofill) THEN r1 \o " ZEROFILL" ELSE r1
        r3 == IF Truthy(inst._length)
              THEN LET a == r2 \o "(" \o Str(inst._length)
                       b == IF TypeOf(inst._decimals) = "number"
                            THEN a \o "," \o Str(inst._decimals)
                            ELSE a
                   IN b \o ")"
              ELSE r2
    IN Rendered(r3, inst, 0)

(* ENUM.prototype.toSql *)
ENUM_toSql(inst) == Rendered("TEXT", inst, 0)

(* instance.toSql(), dispatched on the constructor *)
ToSqlOf(inst) ==
    CASE inst.type = "STRING"      -> STRING_toSql(inst)
      [] inst.type = "TEXT"        -> TEXT_toSql(inst)
      [] inst.type = "CITEXT"      -> CITEXT_toSql(inst)
      [] inst.type = "CHAR"        -> CHAR_toSql(inst)
      [] inst.type \in NumericTypes -> NUMBER_toSql(inst)
      [] inst.type = "ENUM"        -> ENUM_toSql(inst)
      [] OTHER                     -> Rendered(BaseToSql(inst), inst, 0)

(* DataType.extend = oldType => new DataType(oldType.options) *)
ExtendOf(DataType, oldType) == Construct(DataType, oldType.options)

-----------------------------------------------------------------------------
(* Parsing *)

(* new Date(text) *)
NewDate(text) == <<"Date", text>>

(* JSON.parse(data) *)
JSON_parse(data) ==
    CASE data = StrV("1")        -> NumV("1")
      [] data = StrV("null")     -> Null
      [] data = StrV("true")     -> True
      [] data = StrV("\"NaN\"")  -> StrV("NaN")
      [] OTHER                   -> <<"throw", "SyntaxError">>

(* JSONTYPE.parse *)
JSONTYPE_parse(data) == JSON_parse(data)

DATE_parse_anySign(date, timezone) ==
    IF ~(Includes(date, "+") \/ Includes(date, "-"))
    THEN NewDate(date \o timezone)
    ELSE NewDate(date)

(* DATE.parse *)
DATE_parse(date, timezone) ==
    IF ~Includes(date, "+")
    THEN NewDate(date \o timezone)
    ELSE NewDate(date)

(* DATEONLY.parse *)
DATEONLY_parse(date) == date

floating_parse_noNegative(value) ==
    IF TypeOf(value) = "string"
    THEN CASE value = StrV("NaN")       -> NumV("NaN")
           [] value = StrV("Infinity")  -> NumV("Infinity")
           [] OTHER                     -> value
    ELSE value

(* floating.parse, for each of FLOAT, DOUBLE, REAL *)
floating_parse(value) ==
    IF TypeOf(value) = "string"
    THEN CASE value = StrV("NaN")       -> NumV("NaN")
           [] value = StrV("Infinity")  -> NumV("Infinity")
           [] value = StrV("-Infinity") -> NumV("-Infinity")
           [] OTHER                     -> value
    ELSE value

DateTexts ==
    {"2020-01-01 00:00:00", "2020-01-01 00:00:00+02:00", "2020-01-01 00:00:00-05:00",
     "2020-01-01 00:00:00.000 +00:00", "2020-01-01 00:00:00.000 -05:00",
     "2020-01-01 00:00:00+00:00", "2020-01-01T00:00:00Z", "2020-01-01", ""}

Timezones == {"+00:00", "+02:00", "-05:00", "-00:30"}

FloatInputs ==
    {StrV("NaN"), StrV("Infinity"), StrV("-Infinity"), StrV("3.5"), StrV("nan"),
     StrV("+Infinity"), StrV("-infinity"), StrV(" NaN"), StrV("0"), StrV(""),
     NumV("3.5"), NumV("0"), NumV("NaN"), NumV("Infinity"), NumV("-Infinity"),
     Null, Undef, True, False}

JsonInputs == {StrV("1"), StrV("null"), StrV("true"), StrV("\"NaN\""), StrV("{")}

-----------------------------------------------------------------------------
(* Inputs *)

Lengths == {Undef} \cup {Num(n) : n \in 0..MaxLength}

Decimals == {Undef, StrV("1")} \cup {Num(n) : n \in 0..MaxDecimals}

Flags == {Undef, True, False}

TextLengths == {Undef, StrV(""), StrV("tiny"), StrV("long")}

EnumValues == {ArrV("a,b"), ArrV("")}

OptionsOf(type) ==
    CASE type \in NumericTypes ->
            {[NoOptions EXCEPT !.length = l, !.decimals = d, !.unsigned = u, !.zerofill = z] :
                l \in Lengths, d \in Decimals, u \in Flags, z \in Flags}
      [] type \in StringTypes ->
            {[NoOptions EXCEPT !.length = l, !.binary = b] : l \in Lengths, b \in Flags}
      [] type = "TEXT" -> {[NoOptions EXCEPT !.length = l] : l \in TextLengths}
      [] type = "DATE" -> {[NoOptions EXCEPT !.length = l] : l \in Lengths}
      [] type = "ENUM" -> {[NoOptions EXCEPT !.values = v] : v \in EnumValues}
      [] OTHER -> {NoOptions}

-----------------------------------------------------------------------------
(* State *)

NoCall ==
    [op |-> "load", type |-> "", inst |-> 0, from |-> 0, pre |-> NoInst,
     arg |-> Undef, tz |-> "", result |-> Undef, warned |-> 0, first |-> FALSE]

Init ==
    /\ types = SqliteTypes
    /\ keys = ExportedKeys
    /\ insts = <<>>
    /\ rendered = {}
    /\ last = NoCall

(* new DataType(options); the model follows one constructed instance *)
New(type, o) ==
    LET c == Construct(type, o) IN
    /\ insts = <<>>
    /\ insts' = <<c.self>>
    /\ rendered' = {}
    /\ last' = [NoCall EXCEPT !.op = "new", !.type = type, !.inst = 1,
                              !.result = <<"object", type>>, !.warned = c.warned]
    /\ UNCHANGED <<types, keys>>

(* instance.toSql() *)
ToSql(i) ==
    LET r == ToSqlOf(insts[i]) IN
    /\ insts' = [insts EXCEPT ![i] = r.self]
    /\ rendered' = rendered \cup {i}
    /\ last' = [NoCall EXCEPT !.op = "toSql", !.type = insts[i].type, !.inst = i,
                              !.pre = insts[i], !.result = StrV(r.sql),
                              !.warned = r.warned, !.first = (i \notin rendered)]
    /\ UNCHANGED <<types, keys>>

(* DataType.extend(oldType), oldType an instance of DataType *)
Extend(i) ==
    LET c == ExtendOf(insts[i].type, insts[i]) IN
    /\ Len(insts) < MaxInstances
    /\ insts' = Append(insts, c.self)
    /\ last' = [NoCall EXCEPT !.op = "extend", !.type = insts[i].type,
                              !.inst = Len(insts) + 1, !.from = i, !.pre = insts[i],
                              !.result = <<"object", insts[i].type>>,
                              !.warned = c.warned]
    /\ UNCHANGED <<types, keys, rendered>>

Parsed(type, arg, tz, result) ==
    /\ last' = [NoCall EXCEPT !.op = "parse", !.type = type, !.arg = arg, !.tz = tz,
                              !.result = result]
    /\ UNCHANGED <<types, keys, insts, rendered>>

(* DATE.parse(date, options) *)
DateParse(date, timezone) ==
    Parsed("DATE", StrV(date), timezone, DATE_parse(date, timezone))

(* DATEONLY.parse(date) *)
DateOnlyParse(date) == Parsed("DATEONLY", StrV(date), "", DATEONLY_parse(StrV(date)))

(* FLOAT.parse(value), DOUBLE.parse(value), REAL.parse(value) *)
FloatParse(type, value) == Parsed(type, value, "", floating_parse(value))

(* JSONTYPE.parse(data) *)
JsonParse(data) == Parsed("JSON", data, "", JSONTYPE_parse(data))

Next ==
    \/ \E type \in ExportKeys : \E o \in OptionsOf(type) : New(type, o)
    \/ \E i \in 1..Len(insts) : ToSql(i)
    \/ \E i \in 1..Len(insts) : Extend(i)

ParseNext ==
    \/ \E date \in DateTexts, timezone \in Timezones : DateParse(date, timezone)
    \/ \E date \in DateTexts : DateOnlyParse(date)
    \/ \E type \in FloatingTypes, value \in FloatInputs : FloatParse(type, value)
    \/ \E data \in JsonInputs : JsonParse(data)

Spec == Init /\ [][Next]_vars

ParseSpec == Init /\ [][ParseNext]_vars

-----------------------------------------------------------------------------
(* Vocabulary of the properties *)

Range(f) == {f[i] : i \in DOMAIN f}

EndsWith(s, suffix) ==
    /\ Len(s) >= Len(suffix)
    /\ SubSeq(s, Len(s) - Len(suffix) + 1, Len(s)) = suffix

DropSuffix(s, suffix) ==
    IF EndsWith(s, suffix) THEN SubSeq(s, 1, Len(s) - Len(suffix)) ELSE s

(* the rendered string up to its first "(" *)
BeforeParen(s) ==
    IF Includes(s, "(")
    THEN LET i == CHOOSE i \in 1..Len(s) :
                    /\ SubSeq(s, i, i) = "("
                    /\ \A j \in 1..(i - 1) : SubSeq(s, j, j) # "("
         IN SubSeq(s, 1, i - 1)
    ELSE s

(* the native SQL type name of a rendered type: no length, no modifier *)
NativeName(sql) == DropSuffix(DropSuffix(BeforeParen(sql), " ZEROFILL"), " UNSIGNED")

(* the base types whose sqlite alias list holds the name *)
Lookup(name) ==
    {b \in BaseNames : types[b].kind = "list" /\ name \in Range(types[b].names)}

(* the text ends with an offset +hh:mm or -hh:mm *)
HasOffset(text, sign) ==
    /\ Len(text) >= 6
    /\ SubSeq(text, Len(text) - 5, Len(text) - 5) = sign
    /\ SubSeq(text, Len(text) - 2, Len(text) - 2) = ":"

Sql == Str(last.result)

Constructed == last.op \in {"new", "extend"}

-----------------------------------------------------------------------------
(* C1: constructing an integer type never fails, calls warn exactly once    *)
(* when unsigned or zerofill is set and not at all otherwise, leaves both   *)
(* flags cleared, and no toSql of an integer instance holds ' UNSIGNED' or  *)
(* ' ZEROFILL'.                                                             *)
C1_IntegerOptionsRemoved ==
    /\ \A i \in 1..Len(insts) :
          insts[i].type \in IntegerTypes =>
              /\ ~Truthy(insts[i]._unsigned)
              /\ ~Truthy(insts[i]._zerofill)
    /\ (Constructed /\ last.type \in IntegerTypes) =>
          LET self == insts[last.inst]
              asked == Truthy(self.options.unsigned) \/ Truthy(self.options.zerofill)
          IN /\ last.result = <<"object", last.type>>
             /\ self.type = last.type
             /\ last.warned = (IF asked THEN 1 ELSE 0)
             /\ asked => (self._unsigned = Undef /\ self._zerofill = Undef)
    /\ (last.op = "toSql" /\ last.type \in IntegerTypes) =>
          /\ ~Includes(Sql, " UNSIGNED")
          /\ ~Includes(Sql, " ZEROFILL")

C1_Witness ==
    /\ last.op = "toSql"
    /\ last.type = "BIGINT"
    /\ last.pre.options.unsigned = Undef
    /\ last.pre.options.zerofill = True
    /\ last.pre.options.length = Num(2)
    /\ Sql = "BIGINT(2)"

-----------------------------------------------------------------------------
(* C2, as stated: for every exported type whose alias entry is not false,   *)
(* the native name of its rendering identifies exactly its own base type.   *)
C2_RoundTripExact ==
    (last.op = "toSql" /\ types[BaseOf(last.type)].kind # "false") =>
        Lookup(NativeName(Sql)) = {BaseOf(last.type)}

(* C2, amended: for every exported type that has an alias list, the native  *)
(* name of its rendering is one of its own aliases, and identifies its base *)
(* type alone, except that TINYINT identifies BOOLEAN as well.              *)
C2_RoundTripAmong ==
    (last.op = "toSql" /\ types[BaseOf(last.type)].kind = "list") =>
        /\ NativeName(Sql) \in Range(types[BaseOf(last.type)].names)
        /\ Lookup(NativeName(Sql)) =
              (IF last.type = "TINYINT" THEN {"TINYINT", "BOOLEAN"}
                                        ELSE {BaseOf(last.type)})

C2_Witness ==
    /\ last.op = "toSql"
    /\ last.type = "DOUBLE PRECISION"
    /\ Sql = "DOUBLE PRECISION UNSIGNED ZEROFILL(2,1)"
    /\ Lookup(NativeName(Sql)) = {"DOUBLE"}

-----------------------------------------------------------------------------
-----------------------------------------------------------------------------
-----------------------------------------------------------------------------
(* C5: extend gives a new, distinct instance of the same kind whose         *)
(* configured options equal those of the given instance, which it leaves    *)
(* unchanged.                                                               *)
C5_ExtendCopies ==
    last.op = "extend" =>
        LET old == insts[last.from]
            new == insts[last.inst]
        IN /\ last.inst # last.from
           /\ old = last.pre
           /\ new.type = old.type
           /\ new.options = old.options
           /\ new._length = old._length
           /\ new._decimals = old._decimals
           /\ new._binary = old._binary
           /\ new._unsigned = old._unsigned
           /\ new._zerofill = old._zerofill
           /\ new.values = old.values

(* C5 holds of every extend but that of a TEXT whose length toSql discarded *)
C5_ExtendCopiesButText ==
    (last.op = "extend" /\ ~(last.type = "TEXT" /\ Truthy(last.pre.options.length)
                                                /\ last.pre._length = Undef)) =>
        /\ insts[last.inst] = last.pre
        /\ insts[last.from] = last.pre
        /\ last.inst # last.from

-----------------------------------------------------------------------------
(* C6: toSql leaves the instance it is called on and the shared tables      *)
(* unchanged, so a second call gives the same result and the same effects.  *)
C6_ToSqlPure ==
    /\ types = SqliteTypes
    /\ keys = ExportedKeys
    /\ last.op = "toSql" =>
          /\ insts[last.inst] = last.pre
          /\ ToSqlOf(insts[last.inst]).sql = Sql
          /\ ToSqlOf(insts[last.inst]).warned = last.warned

(* C6 holds of every toSql but that of a TEXT with a length *)
C6_ToSqlPureButText ==
    /\ types = SqliteTypes
    /\ keys = ExportedKeys
    /\ (last.op = "toSql" /\ ~(last.type = "TEXT" /\ Truthy(last.pre._length))) =>
          /\ insts[last.inst] = last.pre
          /\ last.warned = 0
          /\ ToSqlOf(insts[last.inst]).sql = Sql
          /\ ToSqlOf(insts[last.inst]).warned = last.warned

-----------------------------------------------------------------------------
-----------------------------------------------------------------------------
(* C8: STRING renders 'VARCHAR BINARY(<length>)' with the binary flag and   *)
(* 'VARCHAR(<length>)' without, CHAR renders 'CHAR BINARY(<length>)' and    *)
(* 'CHAR(<length>)', <length> being the instance's length.                  *)
C8_StringAndChar ==
    (last.op = "toSql" /\ last.type \in StringTypes) =>
        LET name == IF last.type = "STRING" THEN "VARCHAR" ELSE "CHAR"
            len  == Str(last.pre._length)
        IN Sql = (IF Truthy(last.pre._binary)
                  THEN name \o " BINARY(" \o len \o ")"
                  ELSE name \o "(" \o len \o ")")

C8_Witness ==
    /\ last.op = "toSql"
    /\ last.type = "STRING"
    /\ last.pre._binary = True
    /\ last.pre._length = Num(2)
    /\ Sql = "VARCHAR BINARY(2)"

-----------------------------------------------------------------------------
(* C9: parse of FLOAT, DOUBLE and REAL maps the strings 'NaN', 'Infinity'   *)
(* and '-Infinity' to the numbers NaN, Infinity and -Infinity, and gives    *)
(* every other value back unchanged.                                        *)
C9_FloatingParse ==
    (last.op = "parse" /\ last.type \in FloatingTypes) =>
        /\ last.arg = <<"string", "NaN">> => last.result = <<"number", "NaN">>
        /\ last.arg = <<"string", "Infinity">> => last.result = <<"number", "Infinity">>
        /\ last.arg = <<"string", "-Infinity">> => last.result = <<"number", "-Infinity">>
        /\ last.arg \notin {<<"string", "NaN">>, <<"string", "Infinity">>,
                            <<"string", "-Infinity">>} => last.result = last.arg

C9_Witness ==
    /\ last.op = "parse"
    /\ last.type = "REAL"
    /\ last.arg = <<"string", "-Infinity">>
    /\ last.result = <<"number", "-Infinity">>

-----------------------------------------------------------------------------
(* C10: a numeric type renders its key, then ' UNSIGNED' iff the unsigned   *)
(* flag is set when rendering, then ' ZEROFILL' iff the zerofill flag is,   *)
(* then '(<length>)' or '(<length>,<decimals>)' iff a length is set, the    *)
(* decimals only when they are a number; FLOAT, DOUBLE and REAL keep the    *)
(* flags they were constructed with.                                        *)
C10_NumberRendering ==
    /\ (last.op = "toSql" /\ last.type \in NumericTypes) =>
          LET self == last.pre
              unsigned == IF Truthy(self._unsigned) THEN " UNSIGNED" ELSE ""
              zerofill == IF Truthy(self._zerofill) THEN " ZEROFILL" ELSE ""
              decimals == IF self._decimals[1] = "number"
                          THEN "," \o self._decimals[2] ELSE ""
              length   == IF Truthy(self._length)
                          THEN "(" \o self._length[2] \o decimals \o ")" ELSE ""
          IN /\ Sql = last.type \o unsigned \o zerofill \o length
             /\ Includes(Sql, " UNSIGNED") <=> Truthy(self._unsigned)
             /\ Includes(Sql, " ZEROFILL") <=> Truthy(self._zerofill)
             /\ Includes(Sql, "(") <=> Truthy(self._length)
             /\ Includes(Sql, ",") <=>
                   (Truthy(self._length) /\ self._decimals \in {Num(n) : n \in 0..MaxDecimals})
    /\ \A i \in 1..Len(insts) :
          insts[i].type \in FloatingTypes =>
              /\ insts[i]._unsigned = insts[i].options.unsigned
              /\ insts[i]._zerofill = insts[i].options.zerofill

C10_Witness ==
    /\ last.op = "toSql"
    /\ last.type = "FLOAT"
    /\ last.pre.options.unsigned = True
    /\ last.pre.options.zerofill = True
    /\ last.pre.options.length = Num(2)
    /\ last.pre.options.decimals = Num(0)
    /\ Sql = "FLOAT UNSIGNED ZEROFILL(2,0)"

====
